---- MODULE Spec2Model ----
(***************************************************************************)
(* GitHubActionsVersionUpdater (src/src/main.py): run(), its helpers       *)
(* get_workflow_paths, get_latest_release, generate_pull_request_body_line *)
(* and get_all_actions.                                                    *)
(*                                                                         *)
(* A Python str is a tuple of one-character strings, so that split,        *)
(* replace and the f-string of line 84 are computed as Python computes     *)
(* them.  Two tokens stand for the line prefixes "- uses: " and            *)
(* "- name: " of a block sequence of one-key mappings, "\n" ends a line    *)
(* and "[]" is an empty flow sequence.                                     *)
(***************************************************************************)
EXTENDS Naturals, Sequences, FiniteSets

VARIABLES
    ignore_actions,          \* user_config.ignore_actions (line 48)
    skip_pull_request,       \* user_config.skip_pull_request (line 122)
    files,                   \* the working tree: path -> text
    committed,               \* the tree git compares the working tree with
    pc,                      \* position in run()
    response_status,         \* status of the workflow-listing response (0: none yet)
    exit_code,               \* NoExit until the process ends
    workflow_paths,          \* line 38
    idx,                     \* position of "for workflow_path in workflow_paths"
    data,                    \* line 63: the parsed document
    yielded,                 \* what get_all_actions(data) yielded, in order
    all_action_set,          \* lines 64-66; the elements not yet iterated
    updated_workflow_data,   \* lines 61, 99
    workflow_updated,        \* lines 54, 102
    pull_request_body_lines, \* line 39
    git_log,                 \* calls made to run_git / utils, in order
    lookups,                 \* history: get_latest_release calls, with the reference each was for
    substituted,             \* history: references used as the search string of line 99
    noted,                   \* history: notes added, with the reference and document that added each
    completed,               \* history: paths processed to the end of the with block in this pass
    skipped,                 \* history: paths that ended at "except Exception" in this pass
    written,                 \* history: paths written back (lines 109-111) in this pass
    before,                  \* history: the working tree when this pass started
    second_pass              \* history: TRUE once run() was started again on its own output

vars == << ignore_actions, skip_pull_request, files, committed, pc,
           response_status, exit_code,
           workflow_paths, idx, data, yielded, all_action_set,
           updated_workflow_data, workflow_updated, pull_request_body_lines,
           git_log, lookups, substituted, noted, completed, skipped, written,
           before,
           second_pass >>

-----------------------------------------------------------------------------
(* Bounds *)

\* Workflow paths one listing response holds at most.
MaxDocs == 2
\* Nesting depth of the documents the extractor is applied to.
MaxDepth == 4

-----------------------------------------------------------------------------
(* Python values *)

None == [kind |-> "none", val |-> <<>>, items |-> <<>>]
Str(s) == [kind |-> "str", val |-> s, items |-> <<>>]
Int(s) == [kind |-> "int", val |-> s, items |-> <<>>]
List(xs) == [kind |-> "list", val |-> <<>>, items |-> xs]
\* A dict is its items in iteration order, each <<key, value>>.
Dict(kvs) == [kind |-> "dict", val |-> <<>>, items |-> kvs]

workflow_action_key == "uses"
USES == "- uses: "
NAME == "- name: "
NL == "\n"
Digits == {"0", "1", "2"}

-----------------------------------------------------------------------------
(* str methods *)

\* str.replace(old, new): the leftmost non-overlapping occurrences of old.
RECURSIVE ReplaceFrom(_, _, _, _)
ReplaceFrom(s, old, new, i) ==
    IF i > Len(s) THEN <<>>
    ELSE IF i + Len(old) - 1 <= Len(s) /\ SubSeq(s, i, i + Len(old) - 1) = old
         THEN new \o ReplaceFrom(s, old, new, i + Len(old))
         ELSE <<s[i]>> \o ReplaceFrom(s, old, new, i + 1)

Replace(s, old, new) == ReplaceFrom(s, old, new, 1)

\* str.split(sep) for a one-character sep: the parts between the separators.
RECURSIVE SplitFrom(_, _, _, _)
SplitFrom(s, sep, i, cur) ==
    IF i > Len(s) THEN <<cur>>
    ELSE IF s[i] = sep THEN <<cur>> \o SplitFrom(s, sep, i + 1, <<>>)
         ELSE SplitFrom(s, sep, i + 1, Append(cur, s[i]))

Split(s, sep) == SplitFrom(s, sep, 1, <<>>)

-----------------------------------------------------------------------------
(* yaml.load on a block sequence of one-key mappings *)

\* The lines of a text: what precedes each "\n" (a text ends with "\n").
Lines(text) ==
    LET parts == Split(text, NL)
    IN  SubSeq(parts, 1, Len(parts) - 1)

\* A plain scalar: empty is null, digits are an int, "[]" is a sequence.
YamlScalar(v) ==
    IF v = <<>> THEN None
    ELSE IF v = <<"[]">> THEN List(<<>>)
    ELSE IF \A i \in 1..Len(v) : v[i] \in Digits THEN Int(v)
    ELSE Str(v)

\* yaml raises on a line that is no "- key: value" and on a plain scalar
\* that starts with the reserved indicator "@".
YamlError(text) ==
    \/ text # <<>> /\ text[Len(text)] # NL
    \/ \E i \in 1..Len(Lines(text)) :
          LET l == Lines(text)[i]
          IN  \/ l = <<>>
              \/ l[1] \notin {USES, NAME}
              \/ Len(l) >= 2 /\ l[2] = "@"

YamlKey(l) == IF l[1] = USES THEN workflow_action_key ELSE "name"

YamlLoad(text) ==
    IF text = <<>> THEN None
    ELSE List([i \in 1..Len(Lines(text)) |->
                 LET l == Lines(text)[i]
                 IN  Dict(<< <<YamlKey(l), YamlScalar(Tail(l))>> >>)])

-----------------------------------------------------------------------------
(* get_all_actions *)

\* A sequence that is the value of a key is not entered.
IsDictOnly(value) == value.kind = "dict"

\* Line 209: isinstance(value, dict) or isinstance(value, list)
IsContainer(value) == value.kind = "dict" \/ value.kind = "list"

RECURSIVE get_all_actions(_)
RECURSIVE YieldItems(_, _)
RECURSIVE YieldElements(_, _)

\* The loop of lines 206-210 from item i on.
YieldItems(d, i) ==
    IF i > Len(d.items) THEN <<>>
    ELSE LET key == d.items[i][1]
             value == d.items[i][2]
             here == IF key = workflow_action_key THEN <<value>>
                     ELSE IF IsContainer(value)
                          THEN get_all_actions(value)
                          ELSE <<>>
         IN  here \o YieldItems(d, i + 1)

\* The loop of lines 213-214 from element i on.
YieldElements(l, i) ==
    IF i > Len(l.items) THEN <<>>
    ELSE get_all_actions(l.items[i]) \o YieldElements(l, i + 1)

get_all_actions(d) ==
    IF d.kind = "dict" THEN YieldItems(d, 1)
    ELSE IF d.kind = "list" THEN YieldElements(d, 1)
    ELSE <<>>

-----------------------------------------------------------------------------
(* The repository the action runs in, its configuration, and the upstream *)

Text(s) == s \o <<NL>>
Ref(repo, version) == repo \o <<"@">> \o version

AB == <<"a", "/", "b">>
XAB == <<"x", "a", "/", "b">>
CC == <<"c">>
EE == <<"e">>

\* The workflow documents a repository may hold, by path.
Corpus ==
    [ latest   |-> Text(<<USES>> \o Ref(AB, <<"1", "2">>)),
      clean    |-> Text(<<USES>> \o Ref(AB, <<"1">>)) \o Text(<<NAME>> \o Ref(AB, <<"1">>)),
      prefix   |-> Text(<<USES>> \o Ref(AB, <<"1">>)) \o Text(<<USES>> \o Ref(AB, <<"1", "2">>)),
      other    |-> Text(<<USES>> \o Ref(AB, <<"1">>)) \o Text(<<USES>> \o Ref(XAB, <<"1">>)),
      older    |-> Text(<<USES>> \o Ref(AB, <<"0">>)) \o Text(<<USES>> \o Ref(AB, <<"1">>)),
      repos    |-> Text(<<USES>> \o Ref(AB, <<"1">>)) \o Text(<<USES>> \o Ref(CC, <<"1">>))
                     \o Text(<<USES>> \o Ref(CC, <<"0">>)),
      number   |-> Text(<<USES>> \o Ref(AB, <<"1">>)) \o Text(<<USES, "1">>),
      flowseq  |-> Text(<<USES>> \o Ref(AB, <<"1">>)) \o Text(<<USES, "[]">>),
      noat     |-> Text(<<USES>> \o Ref(AB, <<"1">>)) \o Text(<<USES>> \o XAB),
      twoat    |-> Text(<<USES>> \o Ref(AB, <<"1">>))
                     \o Text(<<USES>> \o Ref(Ref(AB, <<"1">>), <<"2">>)),
      emptyref |-> Text(<<USES>> \o Ref(AB, <<>>)),
      reserved |-> Text(<<USES>> \o Ref(<<>>, <<"1">>)),
      broken   |-> Text(<<USES>> \o Ref(CC, <<"0">>)) \o Text(<<USES>> \o Ref(EE, <<"1">>)) ]

\* The paths a listing response may name: those of the documents, and one
\* workflow of the default branch that the checkout does not hold.
Paths == DOMAIN Corpus \cup {"gone"}

\* A working tree without workflow documents.
NoFiles == [p \in {} |-> <<>>]

\* The working trees after checkout: up to MaxDocs of the documents.
Checkouts ==
    {[p \in S |-> Corpus[p]] : S \in {T \in SUBSET DOMAIN Corpus : Cardinality(T) <= MaxDocs}}

\* An ignore list: one entry without a ref, one full reference.
IgnoreList == {AB, Ref(CC, <<"1">>)}
\* The ignore lists the operator may have configured.
IgnoreLists == {{}, IgnoreList}

\* GET /repos/{repo}/releases/latest: the status and the tag of the response.
ReleaseStatus(repo) == IF repo = AB \/ repo = CC THEN 200 ELSE 404
ReleaseTag(repo) == IF repo = AB THEN <<"1", "2">> ELSE <<"2">>
\* The request for this repository gets no response: requests.get raises.
Unreachable(repo) == repo = EE

-----------------------------------------------------------------------------
(* The helpers of run() *)

NoExit == <<>>
NoRelease == [tag_name |-> <<>>, html_url |-> <<>>, found |-> FALSE]

\* get_latest_release once the response is in: the release, or {}.
get_latest_release(action_repository) ==
    IF ReleaseStatus(action_repository) = 200
    THEN [tag_name |-> ReleaseTag(action_repository),
          html_url |-> <<action_repository, ReleaseTag(action_repository)>>,
          found |-> TRUE]
    ELSE NoRelease

\* The line of the pull request body for one release of one repository.
generate_pull_request_body_line(action_repository, latest_release) ==
    [repository |-> action_repository,
     tag_name |-> latest_release.tag_name,
     html_url |-> latest_release.html_url]

\* set(...) raises TypeError on a list or a dict.
Unhashable(values) ==
    \E i \in 1..Len(values) : values[i].kind \in {"list", "dict"}

\* set(): the distinct values yielded.
ToSet(values) == {values[i] : i \in 1..Len(values)}

\* The ignore list is never applied.
DifferenceUpdateSkipped(actions, ignore) == actions

\* difference_update: the elements equal to an entry of the ignore list go.
DifferenceUpdate(actions, ignore) ==
    {a \in actions : ~(a.kind = "str" /\ a.val \in ignore)}

\* Only a reference without "@" is refused.
UnpackFailsWithoutAt(parts) == Len(parts) < 2

\* action.split("@") unpacked into two names: ValueError unless two parts.
UnpackFails(parts) == Len(parts) # 2

\* line 83
UpdatedAction(action_repository, latest_release) ==
    Ref(action_repository, latest_release.tag_name)

\* git_has_changes(): the working tree differs from what is committed.
git_has_changes == files # committed

\* The text rewritten so far is written on the way out.
AfterSkipFlushed(fs, path, text) ==
    IF path \in DOMAIN fs THEN [fs EXCEPT ![path] = text] ELSE fs

\* What "except Exception" leaves of the file: the handle was never written.
AfterSkip(fs, path, text) == fs

\* file.seek(0); file.write(text); file.truncate()
AfterWrite(fs, path, text) == [fs EXCEPT ![path] = text]

\* A failed listing ends like an empty one.
ListingFailedAsEmpty == <<0>>

\* The exit status of get_workflow_paths on a response that is not 200.
ListingFailedStatus == <<1>>
\* The exit status of line 144.
SkippedPullRequestStatus == <<1>>

-----------------------------------------------------------------------------
(* run() *)

\* The listing responses for a working tree: its paths in any order, with
\* or without the path it does not hold, up to MaxDocs paths.
PathLists(tree) ==
    {l \in UNION {[1..n -> Paths] : n \in 0..MaxDocs} :
        /\ \A i, j \in 1..Len(l) : i # j => l[i] # l[j]
        /\ \A p \in DOMAIN tree : \E i \in 1..Len(l) : l[i] = p
        /\ \A i \in 1..Len(l) : l[i] \in DOMAIN tree \cup {"gone"}}

\* The locals of run() and the history before run() has started.
Constructed(tree) ==
    /\ files = tree
    /\ committed = files
    /\ response_status = 0
    /\ exit_code = NoExit
    /\ workflow_paths = <<>>
    /\ idx = 1
    /\ yielded = <<>>
    /\ all_action_set = {}
    /\ updated_workflow_data = <<>>
    /\ workflow_updated = FALSE
    /\ pull_request_body_lines = {}
    /\ git_log = <<>>
    /\ lookups = {}
    /\ substituted = {}
    /\ noted = {}
    /\ completed = {}
    /\ skipped = {}
    /\ written = {}
    /\ before = files
    /\ second_pass = FALSE

Init ==
    /\ ignore_actions \in IgnoreLists
    /\ skip_pull_request \in BOOLEAN
    /\ pc = "start"
    /\ data = None
    /\ \E tree \in Checkouts : Constructed(tree)

config == << ignore_actions, skip_pull_request >>
listing == << response_status, workflow_paths >>
doc_locals == << data, yielded, all_action_set, updated_workflow_data, workflow_updated >>
history == << lookups, substituted, noted, completed, skipped, written, before,
             second_pass >>

\* get_workflow_paths: the response is not 200 (lines 197-201).
ListingFailed ==
    /\ pc = "start"
    /\ response_status' = 500
    /\ pc' = "exit"
    /\ exit_code' = ListingFailedStatus
    /\ UNCHANGED << config, files, committed, workflow_paths, idx, doc_locals,
                    pull_request_body_lines, git_log, history >>

\* get_workflow_paths returns no path (lines 41-46).
NoWorkflows ==
    /\ pc = "start"
    /\ <<>> \in PathLists(files)
    /\ response_status' = 200
    /\ pc' = "exit"
    /\ exit_code' = <<0>>
    /\ UNCHANGED << config, files, committed, workflow_paths, idx, doc_locals,
                    pull_request_body_lines, git_log, history >>

\* get_workflow_paths returns paths (lines 38-51).
Listed ==
    /\ pc = "start"
    /\ response_status' = 200
    /\ \E paths \in PathLists(files) :
          /\ paths # <<>>
          /\ workflow_paths' = paths
    /\ idx' = 1
    /\ pc' = "for_path"
    /\ UNCHANGED << config, files, committed, exit_code, doc_locals,
                    pull_request_body_lines, git_log, history >>

\* "except Exception" (lines 112-113): on to the next path.
SkipDocument(path) ==
    /\ files' = AfterSkip(files, path, updated_workflow_data)
    /\ skipped' = skipped \cup {path}
    /\ idx' = idx + 1
    /\ pc' = "for_path"
    /\ all_action_set' = {}

\* Lines 53-66: open, read, parse, extract, remove the ignored.
OpenDocument ==
    /\ pc = "for_path"
    /\ idx <= Len(workflow_paths)
    /\ LET path == workflow_paths[idx]
       IN  IF path \notin DOMAIN files
           THEN \* open() raises FileNotFoundError
                /\ SkipDocument(path)
                /\ UNCHANGED << data, yielded, updated_workflow_data, workflow_updated >>
           ELSE IF YamlError(files[path])
           THEN /\ SkipDocument(path)
                /\ updated_workflow_data' = files[path]
                /\ workflow_updated' = FALSE
                /\ UNCHANGED << data, yielded >>
           ELSE LET loaded == YamlLoad(files[path])
                    values == get_all_actions(loaded)
                IN  /\ data' = loaded
                    /\ yielded' = values
                    /\ updated_workflow_data' = files[path]
                    /\ workflow_updated' = FALSE
                    /\ IF Unhashable(values)
                       THEN SkipDocument(path)
                       ELSE /\ all_action_set' = DifferenceUpdate(ToSet(values), ignore_actions)
                            /\ pc' = "for_action"
                            /\ UNCHANGED << files, skipped, idx >>
    /\ UNCHANGED << config, committed, exit_code, listing,
                    pull_request_body_lines, git_log,
                    lookups, substituted, noted, completed, written, before,
                    second_pass >>

\* Lines 68-106 for one element of the set, in whatever order the set gives.
ProcessAction ==
    /\ pc = "for_action"
    /\ \E action \in all_action_set :
          LET path == workflow_paths[idx]
              rest == all_action_set \ {action}
              parts == Split(action.val, "@")
              continue == /\ all_action_set' = rest
                          /\ UNCHANGED << files, skipped, idx, pc >>
          IN  IF action.kind # "str"
              THEN \* AttributeError: no split on an int or on None
                   /\ SkipDocument(path)
                   /\ UNCHANGED << updated_workflow_data, workflow_updated,
                                   pull_request_body_lines, lookups, substituted, noted >>
              ELSE IF UnpackFails(parts)
              THEN /\ continue
                   /\ UNCHANGED << updated_workflow_data, workflow_updated,
                                   pull_request_body_lines, lookups, substituted, noted >>
              ELSE LET action_repository == parts[1]
                       latest_release == get_latest_release(action_repository)
                       updated_action == UpdatedAction(action_repository, latest_release)
                   IN  /\ lookups' = lookups \cup {[action |-> action.val, repository |-> action_repository]}
                       /\ \/ \* requests.get raises
                             /\ Unreachable(action_repository)
                             /\ SkipDocument(path)
                             /\ UNCHANGED << updated_workflow_data, workflow_updated,
                                             pull_request_body_lines, substituted, noted >>
                          \/ /\ ~Unreachable(action_repository)
                             /\ ~latest_release.found
                             /\ continue
                             /\ UNCHANGED << updated_workflow_data, workflow_updated,
                                             pull_request_body_lines, substituted, noted >>
                          \/ /\ ~Unreachable(action_repository)
                             /\ latest_release.found
                             /\ action.val = updated_action
                             /\ continue
                             /\ UNCHANGED << updated_workflow_data, workflow_updated,
                                             pull_request_body_lines, substituted, noted >>
                          \/ /\ ~Unreachable(action_repository)
                             /\ latest_release.found
                             /\ action.val # updated_action
                             /\ continue
                             /\ pull_request_body_lines' = pull_request_body_lines \cup
                                   {generate_pull_request_body_line(action_repository, latest_release)}
                             /\ updated_workflow_data' =
                                   Replace(updated_workflow_data, action.val, updated_action)
                             /\ workflow_updated' = TRUE
                             /\ substituted' = substituted \cup {[path |-> path, action |-> action.val]}
                             /\ noted' = noted \cup
                                   {[path |-> path, action |-> action.val,
                                     line |-> generate_pull_request_body_line(action_repository, latest_release)]}
    /\ UNCHANGED << config, committed, exit_code, listing, data, yielded,
                    git_log, completed, written, before, second_pass >>

\* Lines 108-111: the set is exhausted; write back if marked updated.
CloseDocument ==
    /\ pc = "for_action"
    /\ all_action_set = {}
    /\ LET path == workflow_paths[idx]
       IN  /\ files' = IF workflow_updated
                       THEN AfterWrite(files, path, updated_workflow_data)
                       ELSE files
           /\ written' = IF workflow_updated THEN written \cup {path} ELSE written
           /\ completed' = completed \cup {path}
    /\ idx' = idx + 1
    /\ pc' = "for_path"
    /\ UNCHANGED << config, committed, exit_code, listing, doc_locals,
                    pull_request_body_lines, git_log,
                    lookups, substituted, noted, skipped, before, second_pass >>

\* Lines 115, 145-146: nothing changed; run() returns.
UpToDate ==
    /\ pc = "for_path"
    /\ idx > Len(workflow_paths)
    /\ ~git_has_changes
    /\ pc' = "exit"
    /\ exit_code' = <<0>>
    /\ UNCHANGED << config, files, committed, listing, idx, doc_locals,
                    pull_request_body_lines, git_log, history >>

\* Lines 115-122, 138-144: changes, and the pull request is skipped.
SkipPullRequest ==
    /\ pc = "for_path"
    /\ idx > Len(workflow_paths)
    /\ git_has_changes
    /\ skip_pull_request
    /\ git_log' = Append(git_log, "summary")
    /\ pc' = "exit"
    /\ exit_code' = SkippedPullRequestStatus
    /\ UNCHANGED << config, files, committed, listing, idx, doc_locals,
                    pull_request_body_lines, history >>

\* Lines 115-124: changes; the body is built and the branch created.
CreateBranch ==
    /\ pc = "for_path"
    /\ idx > Len(workflow_paths)
    /\ git_has_changes
    /\ ~skip_pull_request
    /\ git_log' = git_log \o <<"summary", "branch">>
    /\ pc' = "commit"
    /\ UNCHANGED << config, files, committed, exit_code, listing, idx,
                    doc_locals, pull_request_body_lines, history >>

\* Lines 125-129: git_commit_changes.
CommitChanges ==
    /\ pc = "commit"
    /\ committed' = files
    /\ git_log' = Append(git_log, "commit")
    /\ pc' = "pull_request"
    /\ UNCHANGED << config, files, exit_code, listing, idx, doc_locals,
                    pull_request_body_lines, history >>

\* Lines 130-137: create_pull_request; run() returns.
CreatePullRequest ==
    /\ pc = "pull_request"
    /\ git_log' = Append(git_log, "pull_request")
    /\ pc' = "exit"
    /\ exit_code' = <<0>>
    /\ UNCHANGED << config, files, committed, listing, idx, doc_locals,
                    pull_request_body_lines, history >>

\* The action is run again on the tree the first run left, with the same
\* configuration and the same upstream.
RunAgain ==
    /\ pc = "exit"
    /\ ~second_pass
    /\ workflow_paths # <<>>
    /\ second_pass' = TRUE
    /\ before' = files
    /\ committed' = files
    /\ pc' = "for_path"
    /\ idx' = 1
    /\ exit_code' = NoExit
    /\ pull_request_body_lines' = {}
    /\ git_log' = <<>>
    /\ lookups' = {}
    /\ substituted' = {}
    /\ noted' = {}
    /\ completed' = {}
    /\ skipped' = {}
    /\ written' = {}
    /\ UNCHANGED << config, files, listing, doc_locals >>

Next ==
    \/ ListingFailed
    \/ NoWorkflows
    \/ Listed
    \/ OpenDocument
    \/ ProcessAction
    \/ CloseDocument
    \/ UpToDate
    \/ SkipPullRequest
    \/ CreateBranch
    \/ CommitChanges
    \/ CreatePullRequest
    \/ RunAgain

Spec == Init /\ [][Next]_vars

-----------------------------------------------------------------------------
(* get_all_actions applied to parsed documents of any shape *)

RECURSIVE Depth(_)
RECURSIVE MaxOver(_, _)
\* The largest Depth among the first n children of node t.
MaxOver(t, n) ==
    IF n = 0 THEN 0
    ELSE LET child == IF t.kind = "dict" THEN t.items[n][2] ELSE t.items[n]
             d == Depth(child)
             m == MaxOver(t, n - 1)
         IN  IF d > m THEN d ELSE m

Depth(t) == IF t.kind \in {"dict", "list"} THEN 1 + MaxOver(t, Len(t.items)) ELSE 0

Scalars == {Str(Ref(AB, <<"1">>)), None}

\* One more level of nesting around document t.
Nestings(t) ==
    { List(<<t>>), List(<<t, t>>), List(<<None, t>>),
      Dict(<< <<"name", t>> >>),
      Dict(<< <<workflow_action_key, t>> >>),
      Dict(<< <<workflow_action_key, Str(Ref(AB, <<"1">>))>>, <<"name", t>> >>),
      Dict(<< <<"name", t>>, <<workflow_action_key, Str(Ref(CC, <<"0">>))>> >>) }

InitExtract ==
    /\ ignore_actions = {}
    /\ skip_pull_request = FALSE
    /\ pc = "parsed"
    /\ data \in Scalars \cup {List(<<>>), Dict(<<>>)}
    /\ Constructed(NoFiles)

\* yaml.load gave a document one level deeper.
Nest ==
    /\ pc = "parsed"
    /\ Depth(data) < MaxDepth
    /\ \E t \in Nestings(data) : data' = t
    /\ UNCHANGED << config, files, committed, pc, exit_code, listing, idx, yielded,
                    all_action_set, updated_workflow_data, workflow_updated,
                    pull_request_body_lines, git_log, history >>

\* list(get_all_actions(data))
Extract ==
    /\ pc = "parsed"
    /\ yielded' = get_all_actions(data)
    /\ pc' = "extracted"
    /\ UNCHANGED << config, files, committed, exit_code, listing, idx, data,
                    all_action_set, updated_workflow_data, workflow_updated,
                    pull_request_body_lines, git_log, history >>

NextExtract == Nest \/ Extract

SpecExtract == InitExtract /\ [][NextExtract]_vars

-----------------------------------------------------------------------------
(* Vocabulary of the properties *)

\* The value of line i of a text, and the lines under the "uses" key.
ValueAt(text, i) == Tail(Lines(text)[i])
UsesLines(text) == {i \in 1..Len(Lines(text)) : Lines(text)[i][1] = USES}
IsString(v) == YamlScalar(v).kind = "str"

RepositoryOf(v) == Split(v, "@")[1]
VersionOf(v) == Split(v, "@")[2]
\* One "@": what line 70 accepts.
OneAt(v) == Len(Split(v, "@")) = 2
\* One "@" between two non-empty parts.
TwoNonEmptyParts(v) == OneAt(v) /\ RepositoryOf(v) # <<>> /\ VersionOf(v) # <<>>
\* The upstream has a release of v's repository under another tag than v's.
NewerTag(v) ==
    /\ ~Unreachable(RepositoryOf(v))
    /\ ReleaseStatus(RepositoryOf(v)) = 200
    /\ ReleaseTag(RepositoryOf(v)) # VersionOf(v)
Upgraded(v) == Ref(RepositoryOf(v), ReleaseTag(RepositoryOf(v)))

PullRequestCalls == <<"summary", "branch", "commit", "pull_request">>
IsPrefix(a, b) == Len(a) <= Len(b) /\ SubSeq(b, 1, Len(a)) = a
Position(path) == CHOOSE i \in 1..Len(workflow_paths) : workflow_paths[i] = path

\* The texts one document can end as when it is processed alone: the
\* substitutions of its outdated references, in every order.
RECURSIVE Substituted(_, _)
Substituted(text, refs) ==
    IF refs = {} THEN {text}
    ELSE UNION {Substituted(Replace(text, v, Upgraded(v)), refs \ {v}) : v \in refs}

Reconciled(text) ==
    Substituted(text, {ValueAt(text, i) : i \in
        {j \in UsesLines(text) :
            LET v == ValueAt(text, j)
            IN  IsString(v) /\ v \notin ignore_actions /\ OneAt(v) /\ NewerTag(v)}})

-----------------------------------------------------------------------------
(* C1 *)

\* C1, as stated: when the ignore set holds a repository identifier R, no
\* release lookup is issued for R, whatever the ref of the reference.
C1_NoLookupForIgnoredRepository ==
    \A l \in lookups : l.repository \notin ignore_actions

\* C1, amended: the ignore set is compared with whole reference strings.  No
\* lookup is issued on behalf of a reference whose text is an entry of the
\* set, and the set is applied before the first reference is iterated.
C1_NoLookupForIgnoredReference ==
    /\ \A l \in lookups : l.action \notin ignore_actions
    /\ pc = "for_action" =>
          \A a \in all_action_set : a.kind = "str" => a.val \notin ignore_actions

\* A document holding the ignored c@1 beside c@0 was processed to its end:
\* c was looked up for c@0 and not for c@1.
C1_Witness ==
    /\ ignore_actions = IgnoreList
    /\ "repos" \in completed
    /\ [action |-> Ref(CC, <<"0">>), repository |-> CC] \in lookups
    /\ ~\E l \in lookups : l.action = Ref(CC, <<"1">>)

-----------------------------------------------------------------------------
(* C2 *)

\* C2: the text of a reference of a document changes only if the reference
\* is not ignored, has one "@", and a release with another tag than its ref
\* was resolved for its own repository identifier.
C2_RewrittenOnlyIfNewerTag ==
    \A p \in DOMAIN files :
        \A i \in 1..Len(Lines(before[p])) :
            LET v == ValueAt(before[p], i)
            IN  ValueAt(files[p], i) # v =>
                    /\ v \notin ignore_actions
                    /\ OneAt(v)
                    /\ NewerTag(v)

-----------------------------------------------------------------------------
(* C3 *)

\* C3: in a document processed to its end, for every reference owner/repo@v1
\* (a string with two non-empty parts, not ignored) whose repository has the
\* latest tag v2 # v1: the document is written back, every line that was
\* owner/repo@v1 is owner/repo@v2, and the notes hold exactly one note for
\* owner/repo.
C3_RewrittenEverywhereOneNote ==
    \A p \in DOMAIN files :
        p \in completed =>
            \A i \in UsesLines(before[p]) :
                LET v == ValueAt(before[p], i)
                IN  (/\ IsString(v)
                     /\ v \notin ignore_actions
                     /\ TwoNonEmptyParts(v)
                     /\ NewerTag(v))
                    => /\ p \in written
                       /\ \A j \in 1..Len(Lines(before[p])) :
                             ValueAt(before[p], j) = v
                                 => ValueAt(files[p], j) = Upgraded(v)
                       /\ Cardinality({n \in pull_request_body_lines :
                                          n.repository = RepositoryOf(v)}) = 1

-----------------------------------------------------------------------------
(* C4 *)

\* C4: run() ends with 1 exactly when the listing response was not 200
\* (nothing opened, looked up or created) or when changes exist and the pull
\* request is skipped (nothing created); otherwise with 0, and branch, commit
\* and pull request are made, in this order, only when changes exist.
C4_ExitCodes ==
    /\ IsPrefix(git_log, PullRequestCalls)
    /\ pc # "exit" => exit_code = NoExit
    /\ pc = "exit" =>
          /\ exit_code \in {<<0>>, <<1>>}
          /\ exit_code = <<1>> <=>
                (response_status # 200 \/ (files # before /\ skip_pull_request))
          /\ response_status # 200 =>
                /\ completed = {} /\ skipped = {}
                /\ lookups = {}
                /\ git_log = <<>>
          /\ exit_code = <<1>> => Len(git_log) <= 1 /\ committed = before
          /\ exit_code = <<0>> =>
                \/ workflow_paths = <<>> /\ git_log = <<>>
                \/ files = before /\ git_log = <<>>
                \/ files # before /\ git_log = PullRequestCalls /\ committed = files

\* Changes exist, the pull request is skipped, and run() ended with 1.
C4_Witness ==
    /\ pc = "exit"
    /\ response_status = 200
    /\ skip_pull_request
    /\ written # {}
    /\ exit_code = <<1>>

-----------------------------------------------------------------------------
(* C5 *)

\* C5: a document whose processing raised keeps the content it had before
\* the run; run() ends only after every listed document was visited; and a
\* document processed to its end holds what processing it alone gives.
C5_SkippedDocumentUntouched ==
    /\ \A p \in DOMAIN files : p \in skipped => files[p] = before[p]
    /\ \A i \in 1..Len(workflow_paths) :
          (i < idx \/ pc = "exit") => workflow_paths[i] \in completed \cup skipped
    /\ \A p \in DOMAIN files : p \in completed => files[p] \in Reconciled(before[p])

\* A document was skipped after a substitution had been made in its text,
\* and a document later in the list was written back.
C5_Witness ==
    \E s \in substituted :
        /\ s.path \in skipped
        /\ \E q \in written : Position(q) > Position(s.path)

-----------------------------------------------------------------------------
(* C6 *)

\* C6, as stated: a reference that does not split on "@" into two non-empty
\* parts gets no lookup, keeps its text and gets no note.
C6_NoLookupUnlessTwoNonEmptyParts ==
    \A p \in DOMAIN files :
        \A i \in UsesLines(before[p]) :
            LET v == ValueAt(before[p], i)
            IN  (IsString(v) /\ ~TwoNonEmptyParts(v)) =>
                    /\ ~\E l \in lookups : l.action = v
                    /\ ValueAt(files[p], i) = v
                    /\ ~\E n \in noted : n.action = v

\* C6, amended: a reference that does not split on "@" into exactly two
\* parts gets no lookup, is never the search string of a substitution and
\* gets no note; the references of the document that do split into two parts
\* (empty or not) and are not ignored are all looked up.
C6_NoLookupUnlessOneAt ==
    /\ \A l \in lookups : OneAt(l.action)
    /\ \A s \in substituted : OneAt(s.action)
    /\ \A n \in noted : OneAt(n.action)
    /\ \A p \in DOMAIN files :
          p \in completed =>
              \A i \in UsesLines(before[p]) :
                  LET v == ValueAt(before[p], i)
                  IN  (IsString(v) /\ v \notin ignore_actions /\ OneAt(v)) =>
                          [action |-> v, repository |-> RepositoryOf(v)] \in lookups

\* A document with a reference that has no single "@" was processed to its
\* end and written back for its other reference.
C6_Witness ==
    \E p \in written :
        /\ p \in completed
        /\ \E i \in UsesLines(before[p]) :
              IsString(ValueAt(before[p], i)) /\ ~OneAt(ValueAt(before[p], i))

-----------------------------------------------------------------------------
(* C7 *)

\* C7: run again on its own output with the same upstream, run() changes no
\* document and marks none as updated.
C7_SecondPassChangesNothing ==
    second_pass => (files = before /\ written = {})

-----------------------------------------------------------------------------
(* C8 *)

Nowhere == [kind |-> "nowhere", val |-> <<>>, items |-> <<>>]

\* The node a path of item positions leads to, entering the elements of a
\* sequence and the values of a mapping that are not under the "uses" key.
RECURSIVE Walk(_, _)
Walk(t, path) ==
    IF path = <<>> THEN t
    ELSE LET i == Head(path)
         IN  IF i > Len(t.items) THEN Nowhere
             ELSE IF t.kind = "list" THEN Walk(t.items[i], Tail(path))
             ELSE IF t.kind = "dict" /\ t.items[i][1] # "uses"
                  THEN Walk(t.items[i][2], Tail(path))
                  ELSE Nowhere

\* The paths a document of the bounded depth and of at most two items per
\* node can have.
CandidatePaths == UNION {[1..n -> {1, 2}] : n \in 1..MaxDepth}
Front(path) == SubSeq(path, 1, Len(path) - 1)
Last(path) == path[Len(path)]

\* The places of a "uses" key in a mapping that can be reached.
UsesPlaces(t) ==
    {path \in CandidatePaths :
        LET d == Walk(t, Front(path))
        IN  /\ d.kind = "dict"
            /\ Last(path) <= Len(d.items)
            /\ d.items[Last(path)][1] = "uses"}
ValueUnder(t, path) == Walk(t, Front(path)).items[Last(path)][2]

Count(seq, v) == Cardinality({i \in 1..Len(seq) : seq[i] = v})

\* C8: get_all_actions yields the value under every reachable "uses" key,
\* once per place, and nothing else; nothing for a document that is no
\* mapping and no sequence.
C8_YieldsEveryUsesValue ==
    pc = "extracted" =>
        /\ Len(yielded) = Cardinality(UsesPlaces(data))
        /\ \A path \in UsesPlaces(data) :
              Count(yielded, ValueUnder(data, path)) =
                  Cardinality({q \in UsesPlaces(data) :
                                  ValueUnder(data, q) = ValueUnder(data, path)})
        /\ data.kind \notin {"dict", "list"} => yielded = <<>>

\* The reference of a mapping in a sequence in a mapping in a sequence was
\* yielded.
C8_Witness ==
    /\ pc = "extracted"
    /\ data = List(<< Dict(<< <<"name",
                 List(<< Dict(<< <<"uses", Str(Ref(AB, <<"1">>))>> >>) >>)>> >>) >>)
    /\ yielded = << Str(Ref(AB, <<"1">>)) >>

-----------------------------------------------------------------------------
(* C9 *)

\* C9: in a document where a "uses" key holds a value that is no string, the
\* outdated references are still looked up, rewritten and written back.
C9_NonStringSkippedAlone ==
    \A p \in DOMAIN files :
        (/\ p \in completed \cup skipped
         /\ ~YamlError(before[p])
         /\ \E i \in UsesLines(before[p]) : ~IsString(ValueAt(before[p], i)))
        => \A j \in UsesLines(before[p]) :
               LET v == ValueAt(before[p], j)
               IN  (/\ IsString(v)
                    /\ v \notin ignore_actions
                    /\ TwoNonEmptyParts(v)
                    /\ NewerTag(v))
                   => /\ [action |-> v, repository |-> RepositoryOf(v)] \in lookups
                      /\ p \in written
                      /\ ValueAt(files[p], j) = Upgraded(v)

-----------------------------------------------------------------------------
(* C10 *)

\* C10: once the pull request body is built, each of its notes was added by
\* a document that was written back in this run.
C10_NotesOfWrittenDocuments ==
    (pc \in {"commit", "pull_request", "exit"} /\ git_log # <<>>) =>
        \A n \in pull_request_body_lines :
            \E r \in noted : r.line = n /\ r.path \in written

====
